---- MODULE Spec2Model ----
(***************************************************************************)
(* Model of the TD3 training orchestrator, src/main.py: main(),            *)
(* eval_policy() and write_eval_to_csv().  The gym environment, the        *)
(* policy object and the replay buffer are collaborators whose code is not *)
(* part of main.py; they are modelled by their contracts.                  *)
(***************************************************************************)
EXTENDS Integers, Sequences, FiniteSets, TLC

\* ------------------------------------------------------------------ bounds
MaxSteps == 3          \* max_timesteps, start_timesteps, eval_freq range up to this
MaxBatch == 2          \* batch_size ranges over 1..MaxBatch
Capacity == 2          \* capacity of the replay buffer ring
MaxEpisodeSteps == 2   \* env._max_episode_steps of the training environment
EvalHorizon == 2       \* longest episode of the evaluation environment
MaxTick == 1           \* longest duration of one operation on the logical clock
ClockSteps == 2        \* max_timesteps of the runs explored under that clock

\* ------------------------------------------------------- program constants
EvalEpisodes == 10     \* eval_policy(..., eval_episodes=10)
SeedOffset == 100      \* eval_env.seed(seed + 100)

PolicyNames == {"TD3", "OurDDPG", "DDPG", "SAC"}
Seeds == {0, 1}
Rewards == {0, 1}
PriorRows == << [avg_reward |-> <<0, 1>>, time |-> 0, env_steps |-> 0,
                 grad_steps |-> 0, seed |-> 9] >>

VARIABLES
    args,             \* the run's configuration (argparse namespace)
    pc,               \* position of main's control
    res_file,         \* the result csv: [exists, headers, rows]
    policy,           \* [bound, kind, updates]: the policy object of main
    replay_buffer,    \* [ptr, size, data]: ring of transitions
    env,              \* training environment: [made, seed, elapsed, resets]
    state,            \* main's current observation
    done,             \* main's done flag of the last env.step
    episode_reward, episode_timesteps, episode_num,
    grad_steps,
    t,                \* loop index of the training loop
    start_time, elapsed_time, start_time_eval,
    now,              \* the logical clock read by perf_counter()
    ev,               \* eval_policy's frame: [active, env_seed, steps, ep, avg_reward]
    avg_reward,       \* main's avg_reward, the value eval_policy returned
    saves,            \* number of policy.save calls
    hist              \* history (ghost) record used to state the properties

vars == << args, pc, res_file, policy, replay_buffer, env, state, done,
           episode_reward, episode_timesteps, episode_num, grad_steps, t,
           start_time, elapsed_time, start_time_eval, now, ev, avg_reward,
           saves, hist >>

\* --------------------------------------------------------------- helpers
Min(a, b) == IF a < b THEN a ELSE b

\* float(done): True -> 1.0, False -> 0.0
Float(b) == IF b THEN 1 ELSE 0

\* Fault variant: a catch-all branch binds a policy for any selector.
ValidPolicyAny(name) == TRUE

\* main, lines 141-150: the three selectors that bind `policy`; there is no
\* else branch, so any other selector leaves the local `policy` unbound.
ValidPolicy(name) == name \in {"TD3", "OurDDPG", "DDPG"}

\* main, lines 97-116: the file is created (mode "x") with the hyperparameter
\* block and the column header only when it does not exist yet.
CreateResultFile(f) ==
    IF ~f.exists
    THEN [f EXCEPT !.exists = TRUE, !.headers = @ + 1]
    ELSE f

\* Fault variant: the file is opened in mode "w" and truncated.
write_eval_truncating(f, avg, time, env_steps, steps, seed) ==
    [dir |-> f.dir, exists |-> TRUE, headers |-> 0,
     rows |-> << [avg_reward |-> avg, time |-> time, env_steps |-> env_steps,
                  grad_steps |-> steps, seed |-> seed] >>]

\* write_eval_to_csv, lines 17-22: open in append mode and write one row.
write_eval_to_csv(f, avg, time, env_steps, steps, seed) ==
    [dir |-> f.dir, exists |-> TRUE, headers |-> f.headers,
     rows |-> Append(f.rows, [avg_reward |-> avg, time |-> time,
                              env_steps |-> env_steps, grad_steps |-> steps,
                              seed |-> seed])]

\* eval_policy, line 29
EvalSeed(seed) == seed + SeedOffset

\* Fault variant: the warm-up ends one step early.
UseRandomActionShort(step, start) == step + 1 < start

\* main, line 174: warm-up test
UseRandomAction(step, start) == step < start

\* Fault variant: the horizon cap is ignored.
DoneBoolRaw(d, ep_steps, cap) == Float(d)

\* main, line 184
DoneBool(d, ep_steps, cap) == IF ep_steps < cap THEN Float(d) ELSE 0

\* Fault variant: training starts one step late.
ShouldTrainLate(step, start) == step > start

\* main, line 193
ShouldTrain(step, start) == step >= start

\* Fault variant: the tick is tested on the 0-indexed step.
IsEvalTickZeroIndexed(step, freq) == step % freq = 0

\* main, line 209
IsEvalTick(step, freq) == (step + 1) % freq = 0

\* Fault variant: the timer's origin is not shifted.
UnshiftedStart(st, clock, st_eval) == st

\* main, line 228: start_time += perf_counter() - start_time_eval
ShiftedStart(st, clock, st_eval) == st + (clock - st_eval)

\* --------------------------------------------- collaborators (contracts)
\* Replay buffer: write at the cursor, advance it modulo the capacity, grow
\* the size up to the capacity.
NoTransition == [state |-> -1, action |-> "none", next_state |-> -1,
                 reward |-> 0, done |-> 0]

EmptyBuffer == [ptr |-> 0, size |-> 0,
                data |-> [i \in 0..(Capacity - 1) |-> NoTransition]]

BufferAdd(b, s, a, ns, r, d) ==
    [ptr |-> (b.ptr + 1) % Capacity,
     size |-> Min(b.size + 1, Capacity),
     data |-> [b.data EXCEPT ![b.ptr] =
                  [state |-> s, action |-> a, next_state |-> ns,
                   reward |-> r, done |-> d]]]

\* Policy: one train call is one gradient step on the parameters;
\* select_action is a forward pass of the actor, a function of the parameters
\* and the observation that changes neither.
PolicyTrain(p) == [p EXCEPT !.updates = @ + 1]
PolicySelectAction(p, obs) == "select_action"

\* Training environment: a gym environment under a TimeLimit wrapper.  The
\* observation is abstracted to the number of steps since the last reset.
EnvReset(e) == [e EXCEPT !.elapsed = 0, !.ret = 0, !.resets = @ + 1]
EnvObs(e) == e.elapsed
EnvStep(e, r) == [e EXCEPT !.elapsed = @ + 1, !.ret = @ + r, !.total = @ + 1]
EnvDone(e, terminated) == terminated \/ e.elapsed >= MaxEpisodeSteps

\* Evaluation environment: seeded, hence deterministic for a given policy;
\* every step pays reward 1 and the episode length depends on the seed, the
\* policy parameters and the episode index.
EvalEpisodeLen(seed, p, ep) == 1 + ((seed + p.updates + ep) % EvalHorizon)

NoEval == [active |-> FALSE, env_seed |-> 0, steps |-> 0, ep |-> 0,
           avg_reward |-> <<0, 1>>]

NoStep == [t |-> -1, random |-> FALSE, done |-> FALSE, done_bool |-> 0,
           ep_steps |-> 0, reward |-> 0, next_state |-> -1, trained |-> FALSE,
           buf_size |-> 0, added |-> 0, episode_num |-> 0]

NoSnap == << >>

\* The part of the run an evaluation must leave alone.
RunState == << policy, replay_buffer, env, state, done, episode_reward,
               episode_timesteps, episode_num, t, grad_steps >>

\* ------------------------------------------------------------------ Init
\* main, line 83: the namespace built from dargs.  file_name says whether
\* dargs holds the key file_name: parse_args (lines 47-77) defines no such
\* argument, so a run started from the command line (lines 247-249) has none,
\* and only another caller of main can supply it.  policy_noise_str,
\* noise_clip_str and expl_noise_str say whether that option holds a string:
\* lines 59, 66 and 68 declare no type, so a value given on the command line
\* stays a string while the default is a float.
AllConfigs ==
    [policy : PolicyNames, seed : Seeds, start_timesteps : 0..MaxSteps,
     eval_freq : 0..MaxSteps, max_timesteps : 0..MaxSteps,
     batch_size : 1..MaxBatch, save_model : BOOLEAN, load_model : BOOLEAN,
     file_name : BOOLEAN, policy_noise_str : BOOLEAN,
     noise_clip_str : BOOLEAN, expl_noise_str : BOOLEAN]

\* parse_args, lines 49-75: the defaults of the parameters a run only passes
\* on (the default batch size, 256, is scaled to 1).
Deviations(c) ==
    Float(ValidPolicy(c.policy) /\ c.policy # "TD3") + Float(c.seed # 0)
    + Float(c.batch_size # 1) + Float(c.save_model) + Float(c.load_model)
    + Float(c.policy_noise_str) + Float(c.noise_clip_str)
    + Float(c.expl_noise_str)

\* The runs explored: the parameters that steer main's control flow
\* (start_timesteps, eval_freq, max_timesteps, whether the selector is a
\* known policy, whether file_name is given) take every combination of values; of the parameters that
\* are only passed on, at most two differ from their defaults in a run.
Configs == { c \in AllConfigs : Deviations(c) <= 2 }

InitWith(cfgs, existing) ==
    /\ args \in cfgs
    /\ pc = "setup"
    /\ \E ex \in existing :
          /\ res_file = [dir |-> ex, exists |-> ex,
                         headers |-> IF ex THEN 1 ELSE 0,
                         rows |-> IF ex THEN PriorRows ELSE << >>]
          /\ hist = [file_existed |-> ex, selects |-> 0, added |-> 0,
                     step |-> NoStep, snap |-> NoSnap, evals |-> 0,
                     loop_start |-> 0, paused |-> 0, tick_clock |-> 0,
                     expected |-> << >>, abort_line |-> 0]
    /\ policy = [bound |-> FALSE, kind |-> "none", updates |-> 0, loaded |-> FALSE]
    /\ replay_buffer = EmptyBuffer
    /\ env = [made |-> FALSE, seed |-> -1, elapsed |-> 0, ret |-> 0,
              resets |-> 0, total |-> 0]
    /\ state = -1
    /\ done = FALSE
    /\ episode_reward = 0
    /\ episode_timesteps = 0
    /\ episode_num = 0
    /\ grad_steps = 0
    /\ t = 0
    /\ start_time = 0
    /\ elapsed_time = 0
    /\ start_time_eval = 0
    /\ now = 0
    /\ ev = NoEval
    /\ avg_reward = <<0, 1>>
    /\ saves = 0

Init == InitWith(Configs, BOOLEAN)

\* --------------------------------------------------------------- actions
\* main, lines 91-94: os.makedirs of the result directory.
MakeDirs(f) == [f EXCEPT !.dir = TRUE]

\* main, lines 83-156: the line at which setup raises, 0 when it does not.
\* Line 96 reads args.file_name (AttributeError without it); in the TD3
\* branch lines 143 and 144 multiply policy_noise and noise_clip by
\* max_action (TypeError for a string); policy.load at line 154 reads the
\* local `policy`, unbound when no branch of lines 141-150 was taken.
SetupAbortLine(c) ==
    IF ~c.file_name THEN 96
    ELSE IF c.policy = "TD3" /\ c.policy_noise_str THEN 143
    ELSE IF c.policy = "TD3" /\ c.noise_clip_str THEN 144
    ELSE IF c.load_model /\ ~ValidPolicy(c.policy) THEN 154
    ELSE 0

\* main, lines 83-156: directories, result file, environment, policy,
\* replay buffer, each only when no earlier line raised.
Setup(d) ==
    /\ pc = "setup"
    /\ now' = now + d
    /\ LET line == SetupAbortLine(args)
           reached(n) == line = 0 \/ line > n
           bound == ValidPolicy(args.policy) /\ reached(150)
       IN /\ res_file' = IF reached(96)
                         THEN CreateResultFile(MakeDirs(res_file))
                         ELSE MakeDirs(res_file)
          /\ env' = IF reached(119)
                    THEN [env EXCEPT !.made = TRUE, !.seed = args.seed]
                    ELSE env
          /\ policy' = [bound |-> bound,
                        kind |-> IF bound THEN args.policy ELSE "none",
                        updates |-> 0,
                        loaded |-> bound /\ args.load_model]
          /\ pc' = IF line # 0 THEN "aborted" ELSE "init_eval"
          /\ hist' = [hist EXCEPT !.abort_line = line]
          /\ replay_buffer' = IF reached(156) THEN EmptyBuffer ELSE replay_buffer
    /\ UNCHANGED << args, state, done, episode_reward, episode_timesteps,
                    episode_num, grad_steps, t, start_time, elapsed_time,
                    start_time_eval, ev, avg_reward, saves >>

\* main, line 159 or 212, entering eval_policy, lines 28-33: a new
\* environment seeded with seed + 100, avg_reward = 0, first reset.  The call
\* at line 159 reads `policy`; unbound, it raises before eval_policy runs.
EvalCall(d) ==
    /\ pc \in {"init_eval", "tick_eval"}
    /\ now' = now + d
    /\ IF ~policy.bound
       THEN /\ pc' = "aborted"
            /\ hist' = [hist EXCEPT !.abort_line = 159]
            /\ ev' = ev
       ELSE /\ pc' = IF pc = "init_eval" THEN "init_run" ELSE "tick_run"
            /\ ev' = [active |-> TRUE, env_seed |-> EvalSeed(args.seed),
                      steps |-> 0, ep |-> 0, avg_reward |-> <<0, 1>>]
            /\ hist' = [hist EXCEPT !.snap = RunState, !.evals = @ + 1,
                                    !.paused = IF pc = "tick_eval" THEN @ + d ELSE @]
    /\ UNCHANGED << args, res_file, policy, replay_buffer, env, state, done,
                    episode_reward, episode_timesteps, episode_num,
                    grad_steps, t, start_time, elapsed_time, start_time_eval,
                    avg_reward, saves >>

\* Fault variant: the rollout runs in the training environment instead of an
\* environment of its own.
EvalEpisodeInTrainingEnv(e) ==
    /\ pc \in {"init_run", "tick_run"}
    /\ ev.active /\ ev.ep < EvalEpisodes
    /\ LET len == EvalEpisodeLen(ev.env_seed, policy, ev.ep)
       IN /\ now' = now + len * e
          /\ ev' = [ev EXCEPT !.ep = @ + 1, !.avg_reward = <<@[1] + len, 1>>]
          /\ env' = [EnvReset(env) EXCEPT !.elapsed = len, !.total = @ + len]
          /\ hist' = [hist EXCEPT !.paused = IF pc = "tick_run" THEN @ + len * e ELSE @]
    /\ UNCHANGED << args, pc, res_file, policy, replay_buffer, state,
                    done, episode_reward, episode_timesteps, episode_num,
                    grad_steps, t, start_time, elapsed_time, start_time_eval,
                    avg_reward, saves >>

\* eval_policy, lines 32-37: one rollout of the evaluation environment, from
\* its reset to done, with the actions policy.select_action gives (a pure read
\* of the policy); every reward is added to avg_reward.
EvalEpisode(e) ==
    /\ pc \in {"init_run", "tick_run"}
    /\ ev.active /\ ev.ep < EvalEpisodes
    /\ LET len == EvalEpisodeLen(ev.env_seed, policy, ev.ep)
           reward == 1
       IN /\ now' = now + len * e
          /\ ev' = [ev EXCEPT !.steps = @ + len,
                              !.ep = @ + 1,
                              !.avg_reward = <<@[1] + len * reward, 1>>]
          /\ hist' = [hist EXCEPT !.paused = IF pc = "tick_run" THEN @ + len * e ELSE @]
    /\ UNCHANGED << args, pc, res_file, policy, replay_buffer, env, state,
                    done, episode_reward, episode_timesteps, episode_num,
                    grad_steps, t, start_time, elapsed_time, start_time_eval,
                    avg_reward, saves >>

\* eval_policy, lines 39-44: avg_reward /= eval_episodes; return avg_reward.
EvalReturn(d) ==
    /\ pc \in {"init_run", "tick_run"}
    /\ ev.active /\ ev.ep = EvalEpisodes
    /\ now' = now + d
    /\ avg_reward' = <<ev.avg_reward[1], EvalEpisodes>>
    /\ ev' = NoEval
    /\ pc' = IF pc = "init_run" THEN "init_write" ELSE "tick_write"
    /\ hist' = [hist EXCEPT !.paused = IF pc = "tick_run" THEN @ + d ELSE @]
    /\ UNCHANGED << args, res_file, policy, replay_buffer, env, state, done,
                    episode_reward, episode_timesteps, episode_num,
                    grad_steps, t, start_time, elapsed_time, start_time_eval,
                    saves >>

\* range(int(max_timesteps)), line 169: the position after loop index `step`.
AfterStep(step) == IF step + 1 < args.max_timesteps THEN "loop" ELSE "finish"

\* main, lines 160-169: the row of the untrained policy, the first reset of
\* the training environment, the counters, and the timer's origin.
WriteInitial(d) ==
    /\ pc = "init_write"
    /\ now' = now + d
    /\ res_file' = write_eval_to_csv(res_file, avg_reward, 0, 0, 0, args.seed)
    /\ env' = EnvReset(env)
    /\ state' = EnvObs(env')
    /\ done' = FALSE
    /\ episode_reward' = 0
    /\ episode_timesteps' = 0
    /\ episode_num' = 0
    /\ grad_steps' = 0
    /\ start_time' = now + d
    /\ t' = 0
    /\ pc' = AfterStep(-1)
    /\ hist' = [hist EXCEPT !.loop_start = now + d]
    /\ UNCHANGED << args, policy, replay_buffer, elapsed_time,
                    start_time_eval, ev, avg_reward, saves >>

\* Fault variant: the episode boundary is decided by done_bool.
EpisodeEndsByDoneBool(d, d_bool) == d_bool

\* main, line 197: the episode boundary is decided by the raw done.
EpisodeEnds(d, d_bool) == d

\* Fault variant: policy.train is called before replay_buffer.add.
TrainBeforeAdd == FALSE

\* main, lines 187-194: replay_buffer.add precedes policy.train in the loop body.
TrainAfterAdd == TRUE

\* main, lines 177-180: max_action * args.expl_noise raises TypeError for a
\* string, on the first step that takes its action from the policy.
ExplNoiseRaises(c, random) == ~random /\ c.expl_noise_str

\* main, line 209: (t + 1) % args.eval_freq raises ZeroDivisionError for 0.
EvalFreqRaises(c) == c.eval_freq = 0

\* main, lines 171-209: one iteration of the training loop up to the test of
\* the evaluation tick.  When line 179 raises, line 171 has counted the step
\* and policy.select_action has been called; when line 209 raises, the body
\* of the iteration is complete.
Step(d) ==
    /\ pc = "loop"
    /\ now' = now + d
    /\ \E reward \in Rewards, terminated \in BOOLEAN :
        LET ep_steps == episode_timesteps + 1
            random == UseRandomAction(t, args.start_timesteps)
            action == IF random THEN "sample" ELSE PolicySelectAction(policy, state)
            env1 == EnvStep(env, reward)
            next_state == EnvObs(env1)
            dn == EnvDone(env1, terminated)
            done_bool == DoneBool(dn, ep_steps, MaxEpisodeSteps)
            buf1 == BufferAdd(replay_buffer, state, action, next_state,
                              reward, done_bool)
            train == ShouldTrain(t, args.start_timesteps)
            seen == IF TrainAfterAdd THEN buf1 ELSE replay_buffer
            ends == EpisodeEnds(dn, done_bool = 1)
            raises == EvalFreqRaises(args)
            tick == ~raises /\ IsEvalTick(t, args.eval_freq)
        IN  IF ExplNoiseRaises(args, random)
            THEN /\ episode_timesteps' = ep_steps
                 /\ pc' = "aborted"
                 /\ hist' = [hist EXCEPT !.selects = @ + 1, !.abort_line = 179]
                 /\ UNCHANGED << replay_buffer, policy, grad_steps, env, state,
                                 done, episode_reward, episode_num, t >>
            ELSE /\ replay_buffer' = buf1
                 /\ policy' = IF train THEN PolicyTrain(policy) ELSE policy
                 /\ grad_steps' = IF train THEN grad_steps + 1 ELSE grad_steps
                 /\ env' = IF ends THEN EnvReset(env1) ELSE env1
                 /\ state' = IF ends THEN EnvObs(EnvReset(env1)) ELSE next_state
                 /\ done' = IF ends THEN FALSE ELSE dn
                 /\ episode_reward' = IF ends THEN 0 ELSE episode_reward + reward
                 /\ episode_timesteps' = IF ends THEN 0 ELSE ep_steps
                 /\ episode_num' = IF ends THEN episode_num + 1 ELSE episode_num
                 /\ pc' = IF raises THEN "aborted"
                          ELSE IF tick THEN "tick" ELSE AfterStep(t)
                 /\ t' = IF raises \/ tick THEN t ELSE t + 1
                 /\ hist' = [hist EXCEPT
                       !.selects = IF random THEN @ ELSE @ + 1,
                       !.added = @ + 1,
                       !.abort_line = IF raises THEN 209 ELSE @,
                       !.step = [t |-> t, random |-> random, done |-> dn,
                                 done_bool |-> done_bool, ep_steps |-> ep_steps,
                                 reward |-> reward, next_state |-> next_state,
                                 trained |-> train,
                                 buf_size |-> IF train THEN seen.size ELSE 0,
                                 added |-> IF train
                                           THEN hist.added + (IF TrainAfterAdd THEN 1 ELSE 0)
                                           ELSE 0,
                                 episode_num |-> episode_num]]
    /\ UNCHANGED << args, res_file, start_time, elapsed_time,
                    start_time_eval, ev, avg_reward, saves >>

\* main, lines 209-211: elapsed_time and start_time_eval are two successive
\* readings of the clock, g apart.
TickBegin(g) ==
    /\ pc = "tick"
    /\ elapsed_time' = now - start_time
    /\ start_time_eval' = now + g
    /\ now' = now + g
    /\ pc' = "tick_eval"
    /\ hist' = [hist EXCEPT
                  !.tick_clock = now,
                  !.expected = Append(@, (now - hist.loop_start) - hist.paused)]
    /\ UNCHANGED << args, res_file, policy, replay_buffer, env, state, done,
                    episode_reward, episode_timesteps, episode_num,
                    grad_steps, t, start_time, ev, avg_reward, saves >>

\* main, lines 213-228: the row of the tick, the optional checkpoint, the
\* shift of the timer's origin; then the next loop index.
WriteTick(d) ==
    /\ pc = "tick_write"
    /\ now' = now + d
    /\ res_file' = write_eval_to_csv(res_file, avg_reward, elapsed_time,
                                     t + 1, grad_steps, args.seed)
    /\ saves' = IF args.save_model THEN saves + 1 ELSE saves
    /\ start_time' = ShiftedStart(start_time, now + d, start_time_eval)
    /\ pc' = AfterStep(t)
    /\ t' = t + 1
    /\ hist' = [hist EXCEPT !.paused = @ + d]
    /\ UNCHANGED << args, policy, replay_buffer, env, state, done,
                    episode_reward, episode_timesteps, episode_num,
                    grad_steps, elapsed_time, start_time_eval, ev,
                    avg_reward >>

\* main, lines 243-244: the optional final checkpoint.
Finish(d) ==
    /\ pc = "finish"
    /\ now' = now + d
    /\ saves' = IF args.save_model THEN saves + 1 ELSE saves
    /\ pc' = "done"
    /\ UNCHANGED << args, res_file, policy, replay_buffer, env, state, done,
                    episode_reward, episode_timesteps, episode_num,
                    grad_steps, t, start_time, elapsed_time, start_time_eval,
                    ev, avg_reward, hist >>

\* The operations whose duration the timer of main never measures apart.
Fixed(e) ==
    \/ Setup(e)
    \/ EvalCall(e)
    \/ EvalEpisode(e)
    \/ EvalReturn(e)
    \/ Finish(e)

\* The operations of main between two readings of the clock.
Timed(d) ==
    \/ WriteInitial(d)
    \/ Step(d)
    \/ WriteTick(d)

\* Every operation costs one tick of the logical clock.
Next == Fixed(1) \/ Timed(1) \/ TickBegin(0)

Spec == Init /\ [][Next]_vars

\* The same program under a clock on which every operation of main takes any
\* duration in 0..MaxTick from the initial row on (a step inside eval_policy
\* keeps its unit cost, so an evaluation lasts as long as its rollouts), for
\* the runs of at most ClockSteps steps that train from the first step on,
\* with file_name given, eval_freq >= 1 and default passed-on parameters.
ClockConfigs ==
    { c \in Configs : /\ ValidPolicy(c.policy) /\ Deviations(c) = 0
                      /\ c.file_name /\ c.eval_freq >= 1
                      /\ c.max_timesteps <= ClockSteps
                      /\ c.start_timesteps = 0
                      /\ c.eval_freq <= ClockSteps }

InitClock == InitWith(ClockConfigs, {FALSE})

NextClock ==
    \/ Fixed(1)
    \/ \E d \in 0..MaxTick : Timed(d)
    \/ \E g \in 0..MaxTick : TickBegin(g)

SpecClock == InitClock /\ [][NextClock]_vars

\* ------------------------------------------------------------ properties
Max(a, b) == IF a > b THEN a ELSE b

\* Rows in the file before the run, and the rows the run wrote.
Prior == IF hist.file_existed THEN Len(PriorRows) ELSE 0
OwnRows == SubSeq(res_file.rows, Prior + 1, Len(res_file.rows))

InEval == pc \in {"init_run", "tick_run"}
InTick == pc \in {"tick", "tick_eval", "tick_run", "tick_write"}
InLoop == pc \in {"loop", "finish", "done"} \/ InTick
Stepped == hist.step.t >= 0

\* Environment steps completed by the loop, from the loop index.
EnvStepsOfLoop == IF InTick THEN t + 1 ELSE t

\* The run stopped on an exception: during setup or the initial evaluation
\* call, or inside the loop; at line 179 the iteration was cut short.
AbortedInSetup == pc = "aborted" /\ hist.abort_line \in {96, 143, 144, 154, 159}
AbortedInLoop == pc = "aborted" /\ hist.abort_line \in {179, 209}
CutShort == pc = "aborted" /\ hist.abort_line = 179

Div(a, b) == IF b = 0 THEN 0 ELSE a \div b

\* The number of rows the run has written when it is at pc.
RowsDue ==
    IF pc \in {"setup", "init_eval", "init_run", "init_write"} \/ AbortedInSetup
    THEN 0
    ELSE IF InTick THEN env.total \div args.eval_freq
    ELSE 1 + Div(env.total, args.eval_freq)

\* C1: every tick row carries grad_steps = max(0, env_steps - start_timesteps);
\* a loop step trains exactly when its index is >= start_timesteps, after its
\* transition was added, and grad_steps counts exactly the train calls.
C1_GradSteps ==
    /\ \A i \in 2..Len(OwnRows) :
          OwnRows[i].grad_steps = Max(0, OwnRows[i].env_steps - args.start_timesteps)
    /\ grad_steps = policy.updates
    /\ InLoop => grad_steps = Max(0, env.total - args.start_timesteps)
    /\ Stepped =>
          /\ hist.step.trained <=> hist.step.t >= args.start_timesteps
          /\ hist.step.trained => hist.step.added = hist.step.t + 1

C1_Witness ==
    /\ Len(OwnRows) >= 2
    /\ OwnRows[Len(OwnRows)].env_steps = 3
    /\ OwnRows[Len(OwnRows)].grad_steps = 2
    /\ args.start_timesteps = 1

\* C2: without a pre-existing file the log holds the row (time 0, env_steps 0,
\* grad_steps 0) written before any environment step, then the k-th tick row
\* with env_steps = k * eval_freq written when t + 1 = k * eval_freq; a
\* run that reaches the end of the loop has 1 + max_timesteps \div eval_freq
\* rows; a run stopped by an exception has the rows of the ticks it passed.
C2_Rows ==
    ~hist.file_existed =>
        LET rows == res_file.rows
        IN /\ Len(rows) = RowsDue
           /\ RowsDue = 0 => env.total = 0
           /\ InTick => args.eval_freq >= 1 /\ env.total % args.eval_freq = 0
           /\ Len(rows) >= 1 =>
                 /\ rows[1].time = 0
                 /\ rows[1].env_steps = 0
                 /\ rows[1].grad_steps = 0
           /\ \A k \in 1..(Len(rows) - 1) :
                 /\ rows[k + 1].env_steps = k * args.eval_freq
                 /\ rows[k].env_steps < rows[k + 1].env_steps
           /\ (pc \in {"finish", "done"} /\ args.eval_freq >= 1)
                 => /\ env.total = args.max_timesteps
                    /\ Len(rows) = 1 + (args.max_timesteps \div args.eval_freq)

C2_Witness ==
    /\ pc = "done"
    /\ ~hist.file_existed
    /\ args.max_timesteps = 3
    /\ args.eval_freq = 2
    /\ Len(res_file.rows) = 2
    /\ res_file.rows[2].env_steps = 2

\* C3: a loop step with index below start_timesteps samples its action and
\* calls neither policy.select_action nor policy.train; every train call sees
\* at least start_timesteps stored transitions.
C3_WarmUp ==
    /\ Stepped /\ hist.step.t < args.start_timesteps
          => /\ hist.step.random
             /\ ~hist.step.trained
             /\ policy.updates = 0
             /\ ~CutShort => hist.selects = 0
    /\ env.total <= args.start_timesteps
          => /\ policy.updates = 0
             /\ ~CutShort => hist.selects = 0
    /\ CutShort => t >= args.start_timesteps /\ hist.selects = 1 + policy.updates
    /\ Stepped /\ hist.step.trained
          => /\ hist.step.added >= args.start_timesteps
             /\ hist.step.buf_size >= Min(args.start_timesteps, Capacity)

C3_Witness ==
    /\ args.start_timesteps = 2
    /\ hist.step.t = 2
    /\ hist.step.trained
    /\ policy.updates = 1
    /\ hist.selects = 1

\* C4: the stored done_bool is 0 when the episode step count has reached the
\* horizon cap, even if the environment returned done, and is done as 0/1
\* below the cap; the episode boundary follows the raw done.
C4_DoneBool ==
    Stepped =>
        /\ hist.step.ep_steps >= MaxEpisodeSteps => hist.step.done_bool = 0
        /\ hist.step.ep_steps < MaxEpisodeSteps
              => hist.step.done_bool = (IF hist.step.done THEN 1 ELSE 0)
        /\ replay_buffer.data[(replay_buffer.ptr + Capacity - 1) % Capacity].done
              = hist.step.done_bool
        /\ hist.step.done
              => /\ episode_num = hist.step.episode_num + 1
                 /\ ~CutShort => episode_timesteps = 0
        /\ ~hist.step.done
              => /\ episode_num = hist.step.episode_num
                 /\ ~CutShort => episode_timesteps = hist.step.ep_steps

C4_Witness ==
    /\ Stepped
    /\ hist.step.done
    /\ hist.step.ep_steps = MaxEpisodeSteps
    /\ hist.step.done_bool = 0
    /\ episode_timesteps = 0
    /\ episode_num = 1

\* C5 as stated: a run started on an existing result file appends no row to
\* it and takes no environment step and no train call.
C5_AbortsOnExistingFile ==
    hist.file_existed =>
        /\ res_file.rows = PriorRows
        /\ env.total = 0
        /\ policy.updates = 0

\* C5, amended: a run started on an existing result file writes no second
\* header block, keeps the rows already there and appends its own rows after
\* them exactly as a run on a fresh file does; when the run stops on an
\* exception the cause is in its arguments, never the existing file.
C5_AppendsToExistingFile ==
    hist.file_existed =>
        /\ res_file.exists /\ res_file.headers = 1
        /\ SubSeq(res_file.rows, 1, Prior) = PriorRows
        /\ pc = "aborted" =>
              \/ hist.abort_line = 96 /\ ~args.file_name
              \/ hist.abort_line = 143 /\ args.policy_noise_str
              \/ hist.abort_line = 144 /\ args.noise_clip_str
              \/ hist.abort_line \in {154, 159}
                    /\ ~(args.policy \in {"TD3", "DDPG", "OurDDPG"})
              \/ hist.abort_line = 179 /\ args.expl_noise_str
              \/ hist.abort_line = 209 /\ args.eval_freq = 0
        /\ Len(OwnRows) = RowsDue
        /\ \A k \in 1..Len(OwnRows) : OwnRows[k].env_steps = (k - 1) * args.eval_freq
        /\ (pc \in {"finish", "done"} /\ args.eval_freq >= 1)
              => /\ Len(OwnRows) = 1 + (args.max_timesteps \div args.eval_freq)
                 /\ env.total = args.max_timesteps

C5_Witness ==
    /\ hist.file_existed
    /\ pc = "done"
    /\ Len(res_file.rows) = Len(PriorRows) + 3
    /\ env.total = 2
    /\ policy.updates = 2

\* C6: with a selector other than TD3, DDPG, OurDDPG the run stops before any
\* evaluation rollout, before any row is written and before any step of the
\* training environment or train call.
C6_UnknownPolicyAborts ==
    ~(args.policy \in {"TD3", "DDPG", "OurDDPG"}) =>
        /\ pc \in {"setup", "init_eval", "aborted"}
        /\ pc = "aborted" => hist.abort_line \in {96, 154, 159}
        /\ ~policy.bound
        /\ hist.evals = 0 /\ ~ev.active
        /\ OwnRows = << >>
        /\ env.total = 0 /\ env.resets = 0
        /\ policy.updates = 0 /\ hist.selects = 0
        /\ replay_buffer = EmptyBuffer

C6_Witness ==
    /\ args.policy = "SAC"
    /\ pc = "aborted"
    /\ hist.abort_line = 159
    /\ res_file.exists

\* C7: from the start of an evaluation to the write that follows it, the
\* policy, the replay buffer, the training environment, state, done, the
\* episode return and step count, the loop index and grad_steps are what they
\* were when it started; the evaluation steps an environment of its own
\* seeded with seed + 100.
C7_EvalReadOnly ==
    /\ pc \in {"init_run", "tick_run", "init_write", "tick_write"}
          => RunState = hist.snap
    /\ ev.active
          => /\ InEval
             /\ ev.env_seed = args.seed + 100
             /\ env.seed = args.seed
             /\ ev.steps >= ev.ep
    /\ InEval => ev.active

C7_Witness ==
    /\ pc = "tick_write"
    /\ hist.evals = 3
    /\ policy.updates = 1
    /\ episode_timesteps = 1
    /\ replay_buffer.size = 2

\* C8: at every loop step the episode step count and the episode return are
\* the steps and the rewards since the last reset of the training
\* environment; a step with done resets the environment, sets state to the
\* reset state and the episode counters to 0 and adds 1 to the episode index;
\* a step without done sets state to next_state; the loop index and
\* grad_steps count all steps and all train calls of the run.
C8_EpisodeBookkeeping ==
    /\ InLoop
          => /\ episode_timesteps = env.elapsed
             /\ episode_reward = env.ret
             /\ state = EnvObs(env)
             /\ episode_num = env.resets - 1
             /\ EnvStepsOfLoop = env.total
             /\ grad_steps = policy.updates
             /\ episode_timesteps < MaxEpisodeSteps
    /\ (Stepped /\ ~CutShort)
          => IF hist.step.done
             THEN /\ state = 0 /\ state # hist.step.next_state
                  /\ episode_reward = 0
                  /\ episode_timesteps = 0
                  /\ episode_num = hist.step.episode_num + 1
             ELSE /\ state = hist.step.next_state
                  /\ episode_timesteps = hist.step.ep_steps
                  /\ episode_num = hist.step.episode_num

C8_Witness ==
    /\ pc = "loop"
    /\ episode_num = 1
    /\ ~hist.step.done
    /\ episode_timesteps = 1
    /\ episode_reward = 1
    /\ t = 2

\* C9: the time of every tick row is the clock time since the loop started
\* minus the durations of the earlier evaluation pauses (evaluator run, row
\* write, optional checkpoint); the initial evaluation is not counted and the
\* times of successive rows never decrease.
C9_TrainingTime ==
    /\ \A i \in 1..Len(hist.expected) :
          i + 1 <= Len(OwnRows) => OwnRows[i + 1].time = hist.expected[i]
    /\ InTick /\ pc # "tick" => elapsed_time = hist.expected[Len(hist.expected)]
    /\ Len(OwnRows) >= 1 => OwnRows[1].time = 0
    /\ Len(OwnRows) <= Len(hist.expected) + 1
    /\ \A i \in 1..(Len(OwnRows) - 1) : OwnRows[i].time <= OwnRows[i + 1].time

C9_Witness ==
    /\ Len(OwnRows) = 3
    /\ OwnRows[2].time = 1
    /\ OwnRows[3].time = 2
    /\ hist.paused > 10
    /\ hist.loop_start > 10

\* C10 as stated: every train call finds at least batch_size transitions in
\* the replay buffer.
C10_BufferHoldsBatch ==
    Stepped /\ hist.step.trained => hist.step.buf_size >= args.batch_size

\* C10, amended: every train call of loop step t finds min(t + 1, capacity)
\* transitions in the replay buffer, hence at least one and at least
\* min(start_timesteps + 1, capacity); at least batch_size of them when
\* start_timesteps + 1 >= batch_size and the capacity is at least batch_size.
C10_BufferAtTrain ==
    Stepped /\ hist.step.trained =>
        /\ hist.step.buf_size = Min(hist.step.t + 1, Capacity)
        /\ hist.step.buf_size >= 1
        /\ hist.step.buf_size >= Min(args.start_timesteps + 1, Capacity)
        /\ (args.start_timesteps + 1 >= args.batch_size /\ Capacity >= args.batch_size)
              => hist.step.buf_size >= args.batch_size

C10_Witness ==
    /\ hist.step.trained
    /\ hist.step.t = 1
    /\ args.start_timesteps = 1
    /\ args.batch_size = 2
    /\ hist.step.buf_size = 2

====
